---- MODULE Spec2Model ----
(***************************************************************************)
(* Model of the two utilities of the repository:                           *)
(*   - the frame relay service, src/python/mediapipe_service.py            *)
(*   - the dump utility, src/combine.py                                    *)
(* Each utility has its own specification (Spec / FairSpec for the         *)
(* service, DumpSpec for the dump utility); the variables of the utility   *)
(* that is not running stay at their initial values.                       *)
(***************************************************************************)
EXTENDS Integers, Sequences, FiniteSets

VARIABLES
    pc,         \* service: position of the process in the script
    poseInit,   \* service: self.pose has been constructed
    handsInit,  \* service: self.hands has been constructed
    stdout,     \* service: lines written to sys.stdout, in order
    stderr,     \* service: lines written to sys.stderr, in order
    exitCode,   \* service: exit status of the process, NoExit while it runs
    line,       \* service: the local `line` of run()
    nread,      \* service: number of non-empty lines readline() has returned
    last,       \* service: what happened in the last loop iteration
    fs,          \* dump: the files on disk other than the output file, path -> kind
    exclude_dir, \* dump: argument of write_combined_output
    out_file,    \* dump: argument of write_combined_output
    extra_paths, \* dump: argument of write_combined_output
    scan,        \* dump: the order in which the file system lists a directory
    run,         \* dump: "first" or "second" invocation
    dpc,         \* dump: position inside write_combined_output
    pending,     \* dump: directories os.walk has still to visit, next first
    visited,     \* dump: directories os.walk has visited, in order
    found,       \* dump: paths iter_files has yielded, in order
    files,       \* dump: the local `files`
    idx,         \* dump: files / extras already written by the running loop
    count,       \* dump: the local `count`
    outExists,   \* dump: the output file exists on disk
    outExisted,  \* dump: the output file existed when this run walked the tree
    output,      \* dump: what the output file holds
    prevOutput,  \* dump: what the output file held when the first run ended
    summary      \* dump: the line printed on stdout by the run, or NoSummary

svars == <<pc, poseInit, handsInit, stdout, stderr, exitCode, line, nread, last>>

dargs == <<fs, exclude_dir, out_file, extra_paths, scan>>

dvars == <<dargs, run, dpc, pending, visited, found, files, idx, count,
           outExists, outExisted, output, prevOutput, summary>>

vars == <<svars, dvars>>

----------------------------------------------------------------------------
(* Bounds of the model. *)

\* Number of input lines the environment sends before end-of-stream.
MaxLines == 2
\* Declared width and height range over -1..MaxDim.
MaxDim == 1
\* The data sequence of a request has 0..MaxDataLen samples.
MaxDataLen == 4

\* reshape((height, width, 3)): samples per pixel.
Channels == 3

NoExit == 0 - 1

----------------------------------------------------------------------------
(* Input lines.  A line is described by what json.loads and process_frame  *)
(* look at: whether it is JSON, whether json.loads can build the value,    *)
(* whether the value is an object, which keys it has, the declared         *)
(* dimensions, the number of samples and whether np.array accepts them.    *)

Keys == {"width", "height", "data"}

Dims == (0 - 1)..MaxDim

NoLine == [syntax |-> "none", object |-> FALSE, keys |-> {}, width |-> 0,
           height |-> 0, len |-> 0, uint8 |-> FALSE]

NonFrameLine(syntax, object, keys) ==
    [syntax |-> syntax, object |-> object, keys |-> keys, width |-> 0,
     height |-> 0, len |-> 0, uint8 |-> FALSE]

\* Requests with the three fields: every declared size with every number of
\* samples, and one whose samples np.array(..., dtype=np.uint8) rejects.
FrameLines ==
    [syntax : {"valid"}, object : {TRUE}, keys : {Keys}, width : Dims,
     height : Dims, len : 0..MaxDataLen, uint8 : {TRUE}]
    \cup {[syntax |-> "valid", object |-> TRUE, keys |-> Keys, width |-> 1,
           height |-> 1, len |-> Channels, uint8 |-> FALSE]}

Lines ==
    {NonFrameLine("invalid", FALSE, {}),     \* not JSON
     NonFrameLine("deep", FALSE, {}),        \* JSON nested beyond the recursion limit
     NonFrameLine("valid", FALSE, {})}       \* a JSON number, string, list, null
    \cup {NonFrameLine("valid", TRUE, ks) : ks \in (SUBSET Keys) \ {Keys}}
    \cup FrameLines

\* Outcomes of the two detectors on a frame.
PoseOutcomes == {"raise", "none", "landmarks"}
HandOutcomes == {"raise", "none", "one", "two"}

----------------------------------------------------------------------------
(* Values written to the streams. *)

EmptyResult == [pose_landmarks |-> <<>>, hand_landmarks |-> <<>>]

\* print(json.dumps(result)): one JSON line; src is the index of the input
\* line being handled when it was written.
JsonLine(body, k) == [kind |-> "json", body |-> body, src |-> k]

\* print("..."): one line of plain text.
TextLine(s, k) == [kind |-> "text", body |-> [text |-> s], src |-> k]

----------------------------------------------------------------------------
(* numpy's ndarray.reshape((height, width, 3)) on a flat array of `len`     *)
(* samples.  A dimension of -1 is inferred from the others; at most one     *)
(* dimension may be -1, and the known dimensions must then divide the size. *)
(* Without a -1 the product of the dimensions must equal the size.          *)

ReshapeOk(len, height, width) ==
    LET unknown == (IF height < 0 THEN 1 ELSE 0) + (IF width < 0 THEN 1 ELSE 0)
        known == (IF height < 0 THEN 1 ELSE height)
                 * (IF width < 0 THEN 1 ELSE width) * Channels
    IN  IF unknown = 0 THEN known = len
        ELSE IF unknown = 1 THEN known > 0 /\ len % known = 0
        ELSE FALSE

\* result['pose_landmarks'] for what pose.process returned.
PoseLandmarks(po) == IF po = "landmarks" THEN <<"pose">> ELSE <<>>

\* result['hand_landmarks'] for what hands.process returned.
HandLandmarks(ho) ==
    IF ho = "one" THEN <<"hand">>
    ELSE IF ho = "two" THEN <<"hand", "hand">>
    ELSE <<>>

\* The first statement of process_frame's try block that raises, "none" when
\* none does.  The statements run in program order.
FrameFailure(fd, po, ho) ==
    IF ~fd.object THEN "TypeError"
    ELSE IF "width" \notin fd.keys THEN "KeyError width"
    ELSE IF "height" \notin fd.keys THEN "KeyError height"
    ELSE IF "data" \notin fd.keys THEN "KeyError data"
    ELSE IF ~fd.uint8 THEN "np.array"
    ELSE IF ~ReshapeOk(fd.len, fd.height, fd.width) THEN "reshape"
    ELSE IF po = "raise" THEN "pose"
    ELSE IF ho = "raise" THEN "hands"
    ELSE "none"

\* Mutant of ProcessFrame: the result dictionary is filled as the detectors
\* return, and the handler returns what was filled so far.
ProcessFramePartial(fd, po, ho) ==
    LET failure == FrameFailure(fd, po, ho)
    IN  IF failure = "none"
        THEN [result |-> [pose_landmarks |-> PoseLandmarks(po),
                          hand_landmarks |-> HandLandmarks(ho)],
              err |-> <<>>, failure |-> failure]
        ELSE [result |-> [pose_landmarks |->
                              IF failure = "hands" THEN PoseLandmarks(po) ELSE <<>>,
                          hand_landmarks |-> <<>>],
              err |-> <<"Error processing frame", "traceback">>,
              failure |-> failure]

\* MediaPipeService.process_frame: the result, what it prints to stderr, and
\* which statement failed.
ProcessFrame(fd, po, ho) ==
    LET failure == FrameFailure(fd, po, ho)
    IN  IF failure = "none"
        THEN [result |-> [pose_landmarks |-> PoseLandmarks(po),
                          hand_landmarks |-> HandLandmarks(ho)],
              err |-> <<>>, failure |-> failure]
        ELSE [result |-> EmptyResult,
              err |-> <<"Error processing frame", "traceback">>,
              failure |-> failure]

\* Mutant of LoopBody: the JSONDecodeError handler only logs.
LoopBodySilentDecodeError(ln, po, ho, k) ==
    IF ln.syntax = "invalid"
    THEN [out |-> <<>>, err |-> <<"JSON decode error">>,
          failure |-> "JSONDecodeError"]
    ELSE IF ln.syntax = "deep"
    THEN [out |-> <<JsonLine(EmptyResult, k)>>,
          err |-> <<"Service error", "traceback">>,
          failure |-> "RecursionError"]
    ELSE LET r == ProcessFrame(ln, po, ho)
         IN  [out |-> <<JsonLine(r.result, k)>>, err |-> r.err,
              failure |-> r.failure]

\* Mutant of LoopBody: the handlers print their message to stdout.
LoopBodyErrorToStdout(ln, po, ho, k) ==
    IF ln.syntax = "invalid"
    THEN [out |-> <<TextLine("JSON decode error", k)>>, err |-> <<>>,
          failure |-> "JSONDecodeError"]
    ELSE IF ln.syntax = "deep"
    THEN [out |-> <<JsonLine([error |-> "Service error"], k)>>, err |-> <<>>,
          failure |-> "RecursionError"]
    ELSE LET r == ProcessFrame(ln, po, ho)
         IN  [out |-> <<JsonLine(r.result, k)>>, err |-> r.err,
              failure |-> r.failure]

\* The body of run()'s loop for a non-empty line: json.loads, process_frame,
\* print, and the two handlers.  out is what goes to stdout, err to stderr.
LoopBody(ln, po, ho, k) ==
    IF ln.syntax = "invalid"
    THEN [out |-> <<JsonLine(EmptyResult, k)>>,
          err |-> <<"JSON decode error">>,
          failure |-> "JSONDecodeError"]
    ELSE IF ln.syntax = "deep"
    THEN [out |-> <<JsonLine(EmptyResult, k)>>,
          err |-> <<"Service error", "traceback">>,
          failure |-> "RecursionError"]
    ELSE LET r == ProcessFrame(ln, po, ho)
         IN  [out |-> <<JsonLine(r.result, k)>>, err |-> r.err,
              failure |-> r.failure]

\* The diagnostics `msgs`, as lines of stderr written while handling line k.
Diag(msgs, k) == [i \in 1..Len(msgs) |-> TextLine(msgs[i], k)]

NoIteration == [failure |-> "none", pose |-> "notcalled", hands |-> "notcalled"]

----------------------------------------------------------------------------
(* The service process. *)

ServiceInit ==
    /\ pc = "import"
    /\ poseInit = FALSE
    /\ handsInit = FALSE
    /\ stdout = <<>>
    /\ stderr = <<>>
    /\ exitCode = NoExit
    /\ line = NoLine
    /\ nread = 0
    /\ last = NoIteration

\* import mediapipe, cv2 succeed.
ImportDeps ==
    /\ pc = "import"
    /\ pc' = "init_pose"
    /\ UNCHANGED dvars
    /\ UNCHANGED <<poseInit, handsInit, stdout, stderr, exitCode, line, nread, last>>

\* import fails: two messages on stderr, sys.exit(1).
ImportFail ==
    /\ pc = "import"
    /\ pc' = "done"
    /\ stderr' = stderr \o Diag(<<"Error: Missing required packages",
                                  "Install with: pip3 install">>, 0)
    /\ exitCode' = 1
    /\ UNCHANGED dvars
    /\ UNCHANGED <<poseInit, handsInit, stdout, line, nread, last>>

\* __main__'s handler: a message on stderr, sys.exit(1).
FailedToStart ==
    /\ pc' = "done"
    /\ stderr' = stderr \o Diag(<<"Failed to start service">>, 0)
    /\ exitCode' = 1
    /\ UNCHANGED dvars
    /\ UNCHANGED <<poseInit, handsInit, stdout, line, nread, last>>

\* self.pose = self.mp_pose.Pose(...)
InitPose ==
    /\ pc = "init_pose"
    /\ pc' = "init_hands"
    /\ poseInit' = TRUE
    /\ UNCHANGED dvars
    /\ UNCHANGED <<handsInit, stdout, stderr, exitCode, line, nread, last>>

\* Pose(...) raises.
InitPoseFail ==
    /\ pc = "init_pose"
    /\ FailedToStart

\* self.hands = self.mp_hands.Hands(...), then the message on stderr.
InitHands ==
    /\ pc = "init_hands"
    /\ pc' = "run"
    /\ handsInit' = TRUE
    /\ stderr' = stderr \o Diag(<<"MediaPipe service initialized with hands enabled">>, 0)
    /\ UNCHANGED dvars
    /\ UNCHANGED <<poseInit, stdout, exitCode, line, nread, last>>

\* Mutant of InitHandsFail: the failure is logged and the service runs.
InitHandsFailIgnored ==
    /\ pc = "init_hands"
    /\ pc' = "run"
    /\ stderr' = stderr \o Diag(<<"Failed to start service">>, 0)
    /\ UNCHANGED dvars
    /\ UNCHANGED <<poseInit, handsInit, stdout, exitCode, line, nread, last>>

\* Hands(...) raises.
InitHandsFail ==
    /\ pc = "init_hands"
    /\ FailedToStart

\* run(): READY on stdout, flush, a message on stderr, enter the loop.
RunReady ==
    /\ pc = "run"
    /\ pc' = "read"
    /\ stdout' = Append(stdout, TextLine("READY", 0))
    /\ stderr' = stderr \o Diag(<<"MediaPipe service ready with hands tracking">>, 0)
    /\ UNCHANGED dvars
    /\ UNCHANGED <<poseInit, handsInit, exitCode, line, nread, last>>

\* readline() returns a non-empty line.
ReadLine ==
    /\ pc = "read"
    /\ nread < MaxLines
    /\ \E ln \in Lines : line' = ln
    /\ nread' = nread + 1
    /\ pc' = "handle"
    /\ UNCHANGED dvars
    /\ UNCHANGED <<poseInit, handsInit, stdout, stderr, exitCode, last>>

\* Mutant of ReadEOF: an empty result is written for the end of the stream.
ReadEOFWritesResult ==
    /\ pc = "read"
    /\ line' = NoLine
    /\ stdout' = Append(stdout, JsonLine(EmptyResult, nread + 1))
    /\ stderr' = stderr \o Diag(<<"End of input stream">>, nread + 1)
    /\ pc' = "eof"
    /\ UNCHANGED dvars
    /\ UNCHANGED <<poseInit, handsInit, exitCode, nread, last>>

\* readline() returns "": a message on stderr, break.
ReadEOF ==
    /\ pc = "read"
    /\ line' = NoLine
    /\ stderr' = stderr \o Diag(<<"End of input stream">>, nread + 1)
    /\ pc' = "eof"
    /\ UNCHANGED dvars
    /\ UNCHANGED <<poseInit, handsInit, stdout, exitCode, nread, last>>

\* The loop body on the line read; the detectors' outcomes are the
\* environment's, except that a frame without samples holds nothing to detect.
HandleLine ==
    /\ pc = "handle"
    /\ \E po \in PoseOutcomes, ho \in HandOutcomes :
          /\ line.len = 0 => po # "landmarks" /\ ho \in {"raise", "none"}
          /\ LET r == LoopBody(line, po, ho, nread)
                 poseCalled == r.failure \in {"pose", "hands", "none"}
                               /\ line.syntax = "valid"
                 handsCalled == r.failure \in {"hands", "none"}
                                /\ line.syntax = "valid"
             IN  /\ stdout' = stdout \o r.out
                 /\ stderr' = stderr \o Diag(r.err, nread)
                 /\ last' = [failure |-> r.failure,
                             pose |-> IF poseCalled THEN po ELSE "notcalled",
                             hands |-> IF handsCalled THEN ho ELSE "notcalled"]
    /\ pc' = "read"
    /\ UNCHANGED dvars
    /\ UNCHANGED <<poseInit, handsInit, exitCode, line, nread>>

\* run() returns, the script ends: exit status 0.
ExitClean ==
    /\ pc = "eof"
    /\ pc' = "done"
    /\ exitCode' = 0
    /\ UNCHANGED dvars
    /\ UNCHANGED <<poseInit, handsInit, stdout, stderr, line, nread, last>>

ServiceNext ==
    \/ ImportDeps
    \/ ImportFail
    \/ InitPose
    \/ InitPoseFail
    \/ InitHands
    \/ InitHandsFail
    \/ RunReady
    \/ ReadLine
    \/ ReadEOF
    \/ HandleLine
    \/ ExitClean

----------------------------------------------------------------------------
(* The dump utility: paths.  A path is the sequence of its components.     *)

\* The names that occur, in the order Python compares strings.
NameOrder ==
    <<".DS_Store", ".git", ".github", "Cargo.toml", "_all_source.txt", "a.txt",
      "b.txt", "bin", "build.sh", "c.txt", "ci.yml", "config", "dump.txt",
      "other", "out", "r", "src", "sub">>

Rank(name) == CHOOSE i \in DOMAIN NameOrder : NameOrder[i] = name

\* d.startswith(".git"), on the names that occur.
StartsWithDotGit(name) == name \in {".git", ".github"}

\* p < q for two Path objects: their components compared left to right.
RECURSIVE PathLess(_, _)
PathLess(p, q) ==
    IF q = <<>> THEN FALSE
    ELSE IF p = <<>> THEN TRUE
    ELSE IF Head(p) # Head(q) THEN Rank(Head(p)) < Rank(Head(q))
    ELSE PathLess(Tail(p), Tail(q))

\* d in p.parents: d is a proper prefix of p.
IsParentOf(d, p) == Len(d) < Len(p) /\ SubSeq(p, 1, Len(d)) = d

\* p.relative_to(base), for p under base.
RelativeTo(p, base) == SubSeq(p, Len(base) + 1, Len(p))

RECURSIVE Insert(_, _)
Insert(p, sorted) ==
    IF sorted = <<>> THEN <<p>>
    ELSE IF PathLess(p, Head(sorted)) THEN <<p>> \o sorted
    ELSE <<Head(sorted)>> \o Insert(p, Tail(sorted))

\* sorted(paths)
RECURSIVE Sorted(_)
Sorted(paths) ==
    IF paths = <<>> THEN <<>> ELSE Insert(Head(paths), Sorted(Tail(paths)))

Reverse(s) == [i \in 1..Len(s) |-> s[Len(s) + 1 - i]]

\* The paths of set S as the file system lists them.
Listing(S, order) ==
    LET asc == Sorted(LET RECURSIVE ToSeq(_)
                          ToSeq(T) == IF T = {} THEN <<>>
                                      ELSE LET x == CHOOSE y \in T : TRUE
                                           IN  <<x>> \o ToSeq(T \ {x})
                      IN  ToSeq(S))
    IN  IF order = "asc" THEN asc ELSE Reverse(asc)

----------------------------------------------------------------------------
(* The dump utility: the file system.                                      *)

SrcDir == <<"r", "src">>

InTreeOut == SrcDir \o <<"_all_source.txt">>
OutsideOut == <<"r", "out", "dump.txt">>

Cargo == <<"r", "Cargo.toml">>
BuildSh == <<"r", "build.sh">>

\* Files that are always there, and files that may be.
FixedFiles == {SrcDir \o <<"a.txt">>, SrcDir \o <<".DS_Store">>}
OptionalFiles ==
    {SrcDir \o <<"bin", "c.txt">>, SrcDir \o <<"sub", "b.txt">>,
     SrcDir \o <<".git", "config">>, SrcDir \o <<".github", "ci.yml">>}

ExcludeChoices == {SrcDir \o <<"bin">>, SrcDir, <<"r">>, <<"r", "other">>}

ExtraChoices == {<<>>, <<Cargo>>, <<Cargo, BuildSh>>}

\* What reading a file does: it decodes, it holds bytes that are not UTF-8,
\* or opening it fails.  A path absent from fs does not exist.
FileKinds == {"text", "badutf8", "unreadable"}

\* Every file on disk at the moment, the output file included.
AllFiles == DOMAIN fs \cup (IF outExists THEN {out_file} ELSE {})

\* os.walk's filenames and dirnames for directory d.
FilesIn(d) == {f \in AllFiles : Len(f) = Len(d) + 1 /\ IsParentOf(d, f)}
DirsIn(d) ==
    {SubSeq(f, 1, Len(d) + 1) : f \in {g \in AllFiles : Len(g) > Len(d) + 1
                                                       /\ IsParentOf(d, g)}}

Name(p) == p[Len(p)]

----------------------------------------------------------------------------
(* The dump utility: what is written.                                      *)

Item(kind, path, content) == [kind |-> kind, path |-> path, content |-> content]

ErrorMarker == "<<ERROR READING FILE>>"

\* Mutant of ReadFileAsText: without the `except Exception` clause.
ReadFileAsTextNoCatch(path) ==
    IF path = out_file /\ outExists
    THEN [raised |-> FALSE, text |-> "dump written so far"]
    ELSE IF path \notin DOMAIN fs \/ fs[path] = "unreadable"
    THEN [raised |-> TRUE, text |-> ""]
    ELSE IF fs[path] = "badutf8"
    THEN [raised |-> FALSE, text |-> "text with U+FFFD"]
    ELSE [raised |-> FALSE, text |-> "text"]

\* read_file_as_text.  The output file read while it is being written holds
\* what has reached the disk so far.
ReadFileAsText(path) ==
    IF path = out_file /\ outExists
    THEN [raised |-> FALSE, text |-> "dump written so far"]
    ELSE IF path \notin DOMAIN fs \/ fs[path] = "unreadable"
    THEN [raised |-> FALSE, text |-> ErrorMarker]
    ELSE IF fs[path] = "badutf8"
    THEN [raised |-> FALSE, text |-> "text with U+FFFD"]
    ELSE [raised |-> FALSE, text |-> "text"]

NoSummary == [count |-> 0 - 1, extras |-> 0 - 1]

----------------------------------------------------------------------------
(* The dump utility: iter_files.                                           *)

\* The dirnames os.walk keeps for the directory: dirnames[:] = [...].
PruneDirs(dirnames) ==
    SelectSeq(dirnames,
              LAMBDA d : d # exclude_dir /\ ~StartsWithDotGit(Name(d)))

\* `continue` before the files of the directory are yielded.
SkipDir(current) == current = exclude_dir \/ IsParentOf(exclude_dir, current)

\* The paths yielded for the directory.
YieldFiles(current) ==
    IF SkipDir(current) THEN <<>>
    ELSE SelectSeq(Listing(FilesIn(current), scan),
                   LAMBDA f : Name(f) # ".DS_Store")

----------------------------------------------------------------------------
(* The dump utility: write_combined_output, run twice.                     *)

IdleDump ==
    /\ run = "first"
    /\ dpc = "start"
    /\ pending = <<>>
    /\ visited = <<>>
    /\ found = <<>>
    /\ files = <<>>
    /\ idx = 0
    /\ count = 0
    /\ outExisted = FALSE
    /\ prevOutput = <<>>
    /\ summary = NoSummary

DumpInit ==
    /\ ServiceInit
    /\ extra_paths \in ExtraChoices
    /\ \E opt \in SUBSET OptionalFiles, kind \in FileKinds, cargo \in BOOLEAN :
          /\ extra_paths = <<>> => ~cargo
          /\ fs = [f \in FixedFiles \cup opt \cup {BuildSh}
                         \cup (IF cargo THEN {Cargo} ELSE {}) |->
                     IF f = SrcDir \o <<"a.txt">> THEN kind ELSE "text"]
    /\ exclude_dir \in ExcludeChoices
    /\ out_file \in {InTreeOut, OutsideOut}
    /\ scan \in {"asc", "desc"}
    /\ outExists \in BOOLEAN
    /\ output = IF outExists THEN <<Item("older content", <<>>, "")>> ELSE <<>>
    /\ IdleDump

\* resolve the arguments, make the output's parent, start os.walk at src_dir.
BeginWalk ==
    /\ dpc = "start"
    /\ dpc' = "walk"
    /\ pending' = <<SrcDir>>
    /\ visited' = <<>>
    /\ found' = <<>>
    /\ files' = <<>>
    /\ idx' = 0
    /\ count' = 0
    /\ outExisted' = outExists
    /\ summary' = NoSummary
    /\ UNCHANGED <<dargs, run, outExists, output, prevOutput>>
    /\ UNCHANGED svars

\* One iteration of iter_files' loop over os.walk.
WalkDir ==
    /\ dpc = "walk"
    /\ pending # <<>>
    /\ LET current == Head(pending)
       IN  /\ pending' = PruneDirs(Listing(DirsIn(current), scan)) \o Tail(pending)
           /\ visited' = Append(visited, current)
           /\ found' = found \o YieldFiles(current)
    /\ UNCHANGED <<dargs, run, dpc, files, idx, count, outExists, outExisted,
                   output, prevOutput, summary>>
    /\ UNCHANGED svars

\* The walk is over: sorted(...), count = 0, open the output for writing and
\* write the two heading lines.
OpenOutput ==
    /\ dpc = "walk"
    /\ pending = <<>>
    /\ files' = Sorted(found)
    /\ count' = 0
    /\ idx' = 0
    /\ outExists' = TRUE
    /\ output' = <<Item("# Combined dump of", SrcDir, ""),
                   Item("# Excluding:", exclude_dir, "")>>
    /\ dpc' = "files"
    /\ UNCHANGED <<dargs, run, pending, visited, found, outExisted, prevOutput,
                   summary>>
    /\ UNCHANGED svars

\* One iteration of `for p in files`.
WriteFile ==
    /\ dpc = "files"
    /\ idx < Len(files)
    /\ LET p == files[idx + 1]
           r == ReadFileAsText(p)
       IN  IF r.raised
           THEN /\ dpc' = "crashed"
                /\ UNCHANGED <<output, idx, count>>
           ELSE /\ output' = Append(output, Item("FILE", RelativeTo(p, SrcDir), r.text))
                /\ idx' = idx + 1
                /\ count' = count + 1
                /\ dpc' = dpc
    /\ UNCHANGED <<dargs, run, pending, visited, found, files, outExists,
                   outExisted, prevOutput, summary>>
    /\ UNCHANGED svars

\* `if extra_paths:` and the heading of the extras.
BeginExtras ==
    /\ dpc = "files"
    /\ idx = Len(files)
    /\ output' = IF extra_paths # <<>>
                 THEN Append(output, Item("# EXTRA FILES", <<>>, ""))
                 ELSE output
    /\ idx' = 0
    /\ dpc' = "extras"
    /\ UNCHANGED <<dargs, run, pending, visited, found, files, count, outExists,
                   outExisted, prevOutput, summary>>
    /\ UNCHANGED svars

\* One iteration of `for xp in extra_paths`.
WriteExtra ==
    /\ dpc = "extras"
    /\ idx < Len(extra_paths)
    /\ LET xp == extra_paths[idx + 1]
           r == ReadFileAsText(xp)
       IN  IF r.raised
           THEN /\ dpc' = "crashed"
                /\ UNCHANGED <<output, idx>>
           ELSE /\ output' = Append(output, Item("EXTRA FILE", xp, r.text))
                /\ idx' = idx + 1
                /\ dpc' = dpc
    /\ UNCHANGED <<dargs, run, pending, visited, found, files, count, outExists,
                   outExisted, prevOutput, summary>>
    /\ UNCHANGED svars

\* The output is closed and the summary printed.
PrintSummary ==
    /\ dpc = "extras"
    /\ idx = Len(extra_paths)
    /\ summary' = [count |-> count, extras |-> Len(extra_paths)]
    /\ dpc' = "done"
    /\ UNCHANGED <<dargs, run, pending, visited, found, files, idx, count,
                   outExists, outExisted, output, prevOutput>>
    /\ UNCHANGED svars

\* The utility is invoked again with the same arguments.
RunAgain ==
    /\ dpc = "done"
    /\ run = "first"
    /\ run' = "second"
    /\ prevOutput' = output
    /\ dpc' = "start"
    /\ UNCHANGED <<dargs, pending, visited, found, files, idx, count, outExists,
                   outExisted, output, summary>>
    /\ UNCHANGED svars

DumpNext ==
    \/ BeginWalk
    \/ WalkDir
    \/ OpenOutput
    \/ WriteFile
    \/ BeginExtras
    \/ WriteExtra
    \/ PrintSummary
    \/ RunAgain

----------------------------------------------------------------------------
(* Specifications. *)

\* The service runs; the dump utility is not invoked.
Init ==
    /\ ServiceInit
    /\ fs = [f \in FixedFiles |-> "text"]
    /\ extra_paths = <<>>
    /\ exclude_dir = SrcDir \o <<"bin">>
    /\ out_file = InTreeOut
    /\ scan = "asc"
    /\ outExists = FALSE
    /\ output = <<>>
    /\ IdleDump

Next == ServiceNext

Spec == Init /\ [][Next]_vars

\* The interpreter runs the script's next statement whenever there is one.
FairSpec == Spec /\ WF_vars(Next)

\* The dump utility runs; the service is not started.
DumpSpec == DumpInit /\ [][DumpNext]_vars

----------------------------------------------------------------------------
(* Properties of the frame relay service. *)

Ready == TextLine("READY", 0)

\* The lines of stdout after the readiness token.
OutputLines == IF stdout = <<>> THEN <<>> ELSE Tail(stdout)

LastOutput == stdout[Len(stdout)]

ReadyCount == Cardinality({i \in DOMAIN stdout : stdout[i] = Ready})

\* The request on `line` parsed into an object with the three fields.
IsFrameRequest(ln) == ln.syntax = "valid" /\ ln.object /\ ln.keys = Keys

\* C1: whenever the service is about to read, has seen the end of the
\* stream or has exited cleanly, it has written one result line per input
\* line read; while it handles line k it has written k-1; and the k-th
\* result line was written while line k was being handled.
C1_OneResultPerLineInOrder ==
    /\ (pc \in {"read", "eof"} \/ exitCode = 0) => Len(OutputLines) = nread
    /\ pc = "handle" => Len(OutputLines) = nread - 1
    /\ \A k \in DOMAIN OutputLines :
          OutputLines[k].kind = "json" /\ OutputLines[k].src = k

C1_Witness ==
    /\ pc = "done"
    /\ exitCode = 0
    /\ nread >= 2
    /\ Len(OutputLines) = nread
    /\ OutputLines[1].body # OutputLines[2].body

\* C2: after a parsed frame request whose data length differs from
\* width*height*3 has been handled, the line written for it is the empty
\* result and the service is back at the read.
C2_MismatchGivesEmptyResult ==
    (/\ pc = "read"
     /\ nread > 0
     /\ IsFrameRequest(line)
     /\ line.len # line.width * line.height * Channels)
    => LastOutput = JsonLine(EmptyResult, nread)

\* C3: after a line whose handling failed (bad JSON, not a frame request, a
\* failed reshape, a detector that raised) the service is back at the read
\* with exactly one more line on stdout, the empty result, whatever the pose
\* detector had returned; and the process exits with a failure status only
\* before it has read any line.
C3_FailureGivesOneEmptyResult ==
    /\ (pc = "read" /\ nread > 0 /\ last.failure # "none")
       => /\ Len(OutputLines) = nread
          /\ LastOutput = JsonLine(EmptyResult, nread)
    /\ last.failure # "none" => pc \in {"read", "handle", "eof", "done"}
    /\ exitCode # NoExit /\ nread > 0 => exitCode = 0 /\ line = NoLine

C3_Witness ==
    /\ pc = "read"
    /\ last.failure = "hands"
    /\ last.pose = "landmarks"
    /\ LastOutput = JsonLine(EmptyResult, nread)

\* C4: the loop is left only by the read that returns end-of-stream; from
\* then on nothing is written to stdout, which holds one result per line
\* read; the exit status after READY is 0; and once the end of the stream
\* has been seen the process terminates.
C4_EndOfStreamTerminates ==
    /\ [][(pc \in {"read", "handle"} /\ pc' \notin {"read", "handle"})
          => (pc = "read" /\ pc' = "eof" /\ line' = NoLine)]_vars
    /\ [][(pc \in {"eof", "done"}) => (stdout' = stdout)]_vars
    /\ [](pc = "eof" => Len(OutputLines) = nread /\ exitCode = NoExit)
    /\ [](pc = "done" /\ stdout # <<>> => exitCode = 0 /\ Len(OutputLines) = nread)
    /\ (pc = "eof") ~> (pc = "done" /\ exitCode = 0)

C4_Witness ==
    /\ pc = "done"
    /\ exitCode = 0
    /\ nread = 1
    /\ Len(stdout) = 2

\* C5: READY is on stdout at most once, as its first line, only when both
\* detectors are initialised, and always before a line is read; a process
\* that exits with a failure status has written nothing to stdout and read
\* nothing, and a process that ends without both detectors has that status.
C5_ReadyAfterInitBeforeRead ==
    /\ ReadyCount <= 1
    /\ ReadyCount = 1 => stdout[1] = Ready /\ poseInit /\ handsInit
    /\ (pc \in {"read", "handle", "eof"} \/ nread > 0) => ReadyCount = 1
    /\ pc = "run" => poseInit /\ handsInit /\ stdout = <<>> /\ nread = 0
    /\ exitCode = 1 => stdout = <<>> /\ nread = 0 /\ ~(poseInit /\ handsInit)
    /\ (pc = "done" /\ ~(poseInit /\ handsInit)) => exitCode = 1

C5_Witness ==
    /\ pc = "done"
    /\ exitCode = 1
    /\ poseInit
    /\ ~handsInit
    /\ stdout = <<>>

\* C6: every line of stdout after the first is a JSON object with the
\* fields pose_landmarks and hand_landmarks and no error field; the only
\* text line of stdout is READY; every handled failure has left its
\* message on stderr.
C6_StdoutCarriesOnlyResults ==
    /\ \A i \in DOMAIN stdout :
          IF i = 1 THEN stdout[i] = Ready
          ELSE /\ stdout[i].kind = "json"
               /\ {"pose_landmarks", "hand_landmarks"} \subseteq DOMAIN stdout[i].body
               /\ "error" \notin DOMAIN stdout[i].body
    /\ \A i \in DOMAIN stderr : stderr[i].kind = "text"
    /\ (pc = "read" /\ nread > 0 /\ last.failure # "none")
       => stderr # <<>> /\ stderr[Len(stderr)].src = nread

C6_Witness ==
    /\ pc = "read"
    /\ last.failure = "JSONDecodeError"
    /\ Len(stdout) = 3
    /\ stdout[2].body.pose_landmarks # <<>>

----------------------------------------------------------------------------
(* Properties of the dump utility. *)

\* The files on disk when the run walked the tree.
WalkedFiles == DOMAIN fs \cup (IF outExisted THEN {out_file} ELSE {})

InExcluded(f) == f = exclude_dir \/ IsParentOf(exclude_dir, f)

\* f lies inside a directory named .git below the source root.
InVcsDir(f) == \E i \in (Len(SrcDir) + 1)..(Len(f) - 1) : f[i] = ".git"

Sections(kind) == SelectSeq(output, LAMBDA it : it.kind = kind)

SectionPaths(kind) == [i \in DOMAIN Sections(kind) |-> Sections(kind)[i].path]

\* The files the dump is to hold, in ascending order of path.
ExpectedFiles ==
    Listing({f \in WalkedFiles : /\ IsParentOf(SrcDir, f)
                                 /\ ~InExcluded(f)
                                 /\ ~InVcsDir(f)
                                 /\ Name(f) # ".DS_Store"}, "asc")

\* C7: when a run has ended, the FILE sections are those of the files under
\* the source root that are outside the excluded subtree, outside a .git
\* directory and not .DS_Store, once each in ascending order of path; they
\* are followed by one EXTRA FILE section per extra path, in the order given.
C7_SectionsAreTheTreeThenExtras ==
    dpc = "done" =>
       /\ SectionPaths("FILE")
            = [i \in DOMAIN ExpectedFiles |-> RelativeTo(ExpectedFiles[i], SrcDir)]
       /\ SectionPaths("EXTRA FILE") = extra_paths
       /\ \A i, j \in DOMAIN output :
             (output[i].kind = "FILE" /\ output[j].kind = "EXTRA FILE") => i < j

\* C8: when the second of two runs with the same arguments has ended, the
\* output file holds what it held when the first run ended.
C8_SecondRunWritesTheSame ==
    (run = "second" /\ dpc = "done") => output = prevOutput

\* C9: a run never aborts; once the files are written there is one section
\* per walked file, in order, counted in `count`, the section of an
\* unreadable file holding the error marker and that of a file with invalid
\* bytes the text with placeholders; at the end the same holds for the
\* extras, and the summary reports every in-tree file.
C9_UnreadableFilesKeepTheRunGoing ==
    /\ dpc # "crashed"
    /\ dpc \in {"extras", "done"} =>
          /\ count = Len(files)
          /\ Len(Sections("FILE")) = Len(files)
          /\ \A i \in DOMAIN files :
                LET sec == Sections("FILE")[i]
                    p == files[i]
                IN  /\ sec.path = RelativeTo(p, SrcDir)
                    /\ (p \in DOMAIN fs /\ fs[p] = "unreadable")
                          => sec.content = ErrorMarker
                    /\ (p \in DOMAIN fs /\ fs[p] = "badutf8")
                          => sec.content = "text with U+FFFD"
    /\ dpc = "done" =>
          /\ summary = [count |-> Len(files), extras |-> Len(extra_paths)]
          /\ Len(Sections("EXTRA FILE")) = Len(extra_paths)
          /\ \A i \in DOMAIN extra_paths :
                extra_paths[i] \notin DOMAIN fs
                   => Sections("EXTRA FILE")[i].content = ErrorMarker

C9_Witness ==
    /\ dpc = "done"
    /\ fs[SrcDir \o <<"a.txt">>] = "unreadable"
    /\ summary.count >= 2
    /\ files[1] = SrcDir \o <<"a.txt">>
    /\ extra_paths = <<Cargo, BuildSh>>
    /\ Cargo \notin DOMAIN fs
    /\ Sections("EXTRA FILE")[2].content = "text"

\* C10: the walk visits no directory that is the excluded directory or lies
\* below it.
C10_WalkStaysOutOfExcluded ==
    \A i \in DOMAIN visited : ~InExcluded(visited[i])

====
